---- MODULE Spec2Model ----
(***************************************************************************)
(* Roster component of the CFB25 Dynasty Manager (src/unnamed/part_000).   *)
(*                                                                         *)
(* The component keeps a list of Player records in a persisted React       *)
(* state (useLocalStorage), a draft record (newPlayer), the id of the      *)
(* record under edit (editingId) and the field-error mapping (errors).     *)
(* Every event handler is a closure over the values of the render in       *)
(* which it was created: `players` below is that closure value, `store`    *)
(* is the value last handed to setPlayers.  A re-render copies store into  *)
(* players.                                                                *)
(*                                                                         *)
(* Strings whose characters matter (name, rating) are sequences of         *)
(* one-character strings; position and year labels are compared whole and  *)
(* are plain strings.                                                      *)
(***************************************************************************)
EXTENDS Integers, Sequences, FiniteSets, TLC

\* ---------------------------------------------------------------- bounds
\* add is not offered once the list holds MaxPlayers records
MaxPlayers == 2
\* Date.now() ranges over 1..MaxClock
MaxClock == 2

\* the longest list the sorted table is computed for
MaxRows == 4

\* ------------------------------------------------------ program constants
MaxNameLen == 100
MinRating == 0
MaxRating == 99

\* editingId is null when no record is under edit; ids are readings of
\* Date.now() and never 0
None == 0

positions == {"QB", "RB", "WR", "TE", "OL", "DL", "LB", "CB", "S", "K", "P"}

years == <<"FR", "FR (RS)", "SO", "SO (RS)", "JR", "JR (RS)", "SR", "SR (RS)">>

YearSet == {years[i] : i \in 1..Len(years)}

\* the rank table; a label outside its domain has no rank
yearOrder ==
  ("FR" :> 0) @@ ("FR (RS)" :> 1) @@ ("SO" :> 2) @@ ("SO (RS)" :> 3)
    @@ ("JR" :> 4) @@ ("JR (RS)" :> 5) @@ ("SR" :> 6) @@ ("SR (RS)" :> 7)

\* ------------------------------------------------------------- characters
Digits == <<"0", "1", "2", "3", "4", "5", "6", "7", "8", "9">>

IsDigit(c) == \E d \in 1..10 : Digits[d] = c

DigitVal(c) == (CHOOSE d \in 1..10 : Digits[d] = c) - 1

toUpperCase(c) ==
  CASE c = "b" -> "B"
    [] c = "o" -> "O"
    [] OTHER -> c

IsSpace(c) == c = " "

\* String.prototype.trim: drop leading and trailing white space
RECURSIVE TrimLeft(_)
TrimLeft(s) ==
  IF s = <<>> THEN <<>>
  ELSE IF IsSpace(Head(s)) THEN TrimLeft(Tail(s)) ELSE s

RECURSIVE TrimRight(_)
TrimRight(s) ==
  IF s = <<>> THEN <<>>
  ELSE IF IsSpace(s[Len(s)]) THEN TrimRight(SubSeq(s, 1, Len(s) - 1)) ELSE s

trim(s) == TrimRight(TrimLeft(s))

\* value of a string of decimal digits
RECURSIVE DecimalValue(_)
DecimalValue(s) ==
  IF s = <<>> THEN 0
  ELSE 10 * DecimalValue(SubSeq(s, 1, Len(s) - 1)) + DigitVal(s[Len(s)])

\* ------------------------------------------------- utils (outside src/)
\* capitalizeName: the first letter of every word becomes upper case; the
\* other characters, the blanks between words included, stay as they are
capitalizeName(name) ==
  [i \in 1..Len(name) |->
     IF i = 1 \/ IsSpace(name[i - 1]) THEN toUpperCase(name[i])
     ELSE name[i]]

\* validateName: the trimmed value is non-empty and at most MaxNameLen long
validateName(name) ==
  /\ Len(trim(name)) > 0
  /\ Len(trim(name)) <= MaxNameLen

\* validatePosition: the value is exactly one of the position codes
validatePosition(position) == position \in positions

\* validateRating: the value is a decimal integer in MinRating..MaxRating
validateRating(rating) ==
  /\ rating # <<>>
  /\ \A i \in 1..Len(rating) : IsDigit(rating[i])
  /\ DecimalValue(rating) >= MinRating
  /\ DecimalValue(rating) <= MaxRating

\* ------------------------------------------------------------------ inputs
\* what the user types into the name box
NameInputs == {<<"b", " ", "o">>}

\* the position Select offers the position codes
PositionInputs == {"QB"}

\* the year Select offers the year labels
YearInputs == {"SO (RS)"}

\* what the user types into the rating box
RatingInputs == {<<"7">>, <<"1", "0", "0">>}

\* ids a caller can hand to removePlayer
IdInputs == 1..(MaxClock + 1)

\* ------------------------------------------------------------------- state
VARIABLES
  store,      \* the persisted list: the value last passed to setPlayers
  players,    \* the list the handlers of the current render close over
  newPlayer,  \* the draft record
  editingId,  \* id of the record under edit, or None
  errors,     \* field -> message, as set by the last validatePlayer
  now,        \* the last reading of Date.now()
  sortConfig, \* the active sort field and direction
  storage,    \* the text under the key 'players' of the backing store
  toast,      \* the notification the last handler raised
  thrown,     \* an exception escaped the last handler
  lastOp,     \* history: the handler that ran last and its argument
  typed       \* history: a draft field changed since the last startEditing

vars == <<store, players, newPlayer, editingId, errors, now, sortConfig,
          storage, toast, thrown, lastOp, typed>>

EmptyDraft == [id |-> None, name |-> <<>>, position |-> "", year |-> "", rating |-> <<>>]

NameMsg == "Invalid name. Please enter a non-empty name up to 100 characters."
PositionMsg == "Invalid position. Please select a valid position."
RatingMsg == "Invalid rating. Please enter a number between 0 and 99."

Ids(list) == {list[i].id : i \in 1..Len(list)}

NoErrorMap == [f \in {} |-> ""]

SortFields == {"name", "position", "year", "rating"}

\* the sort the component starts with and the effect on [players] re-asserts
DefaultSort == [field |-> "rating", direction |-> "desc"]

\* getItem returns null for a key that was never written
NoItem == <<"null">>

NoToast == ""
AddedToast == "Player added successfully!"
AddFailedToast == "Failed to add player. Please try again."
CorrectToast == "Please correct the errors before adding the player."

Init ==
  /\ store = <<>>
  /\ players = <<>>
  /\ newPlayer = EmptyDraft
  /\ editingId = None
  /\ errors = NoErrorMap
  /\ now = 1
  /\ sortConfig = DefaultSort
  /\ storage = NoItem
  /\ toast = NoToast
  /\ thrown = FALSE
  /\ lastOp = <<"mount", None>>
  /\ typed = FALSE

\* the keys of newErrors: the fields whose validator rejects the value
FailingFields(player) ==
  (IF validateName(player.name) THEN {} ELSE {"name"})
    \cup (IF validatePosition(player.position) THEN {} ELSE {"position"})
    \cup (IF validateRating(player.rating) THEN {} ELSE {"rating"})

\* validatePlayer without its rating check
validatePlayerSkipsRating(player) ==
  [f \in FailingFields(player) \ {"rating"} |->
     CASE f = "name" -> NameMsg
       [] f = "position" -> PositionMsg]

validatePlayer(player) ==
  [f \in FailingFields(player) |->
     CASE f = "name" -> NameMsg
       [] f = "position" -> PositionMsg
       [] f = "rating" -> RatingMsg]

NoErrors(newErrors) == DOMAIN newErrors = {}

\* ------------------------------------------------------------------- JSON
\* The text of a value is a sequence of characters; a position or year
\* label, a key and a punctuation mark each count as one character.
RECURSIVE NumberText(_)
NumberText(n) ==
  IF n < 10 THEN <<Digits[n + 1]>>
  ELSE NumberText(n \div 10) \o <<Digits[(n % 10) + 1]>>

Quote == "\""
Backslash == "\\"

\* a quote or a backslash inside a string is written after a backslash
RECURSIVE Escaped(_)
Escaped(chars) ==
  IF chars = <<>> THEN <<>>
  ELSE (IF Head(chars) \in {Quote, Backslash}
          THEN <<Backslash, Head(chars)>> ELSE <<Head(chars)>>)
         \o Escaped(Tail(chars))

StringText(chars) == <<Quote>> \o Escaped(chars) \o <<Quote>>

LabelText(label) == StringText(IF label = "" THEN <<>> ELSE <<label>>)

RecordText(r) ==
  <<"{", "id", ":">> \o NumberText(r.id)
    \o <<",", "name", ":">> \o StringText(r.name)
    \o <<",", "position", ":">> \o LabelText(r.position)
    \o <<",", "year", ":">> \o LabelText(r.year)
    \o <<",", "rating", ":">> \o StringText(r.rating)
    \o <<"}">>

RECURSIVE RecordsText(_)
RecordsText(list) ==
  IF list = <<>> THEN <<>>
  ELSE IF Len(list) = 1 THEN RecordText(list[1])
  ELSE RecordText(list[1]) \o <<",">> \o RecordsText(Tail(list))

JSONstringify(list) == <<"[">> \o RecordsText(list) \o <<"]">>

\* the characters of a string, read from just after its opening quote
RECURSIVE StringFrom(_, _)
StringFrom(text, i) ==
  IF i > Len(text) THEN [ok |-> FALSE, chars |-> <<>>, next |-> i]
  ELSE IF text[i] = Quote THEN [ok |-> TRUE, chars |-> <<>>, next |-> i + 1]
  ELSE IF text[i] = Backslash
    THEN IF i + 1 > Len(text) THEN [ok |-> FALSE, chars |-> <<>>, next |-> i]
         ELSE LET rest == StringFrom(text, i + 2) IN
                [ok |-> rest.ok, chars |-> <<text[i + 1]>> \o rest.chars,
                 next |-> rest.next]
  ELSE LET rest == StringFrom(text, i + 1) IN
         [ok |-> rest.ok, chars |-> <<text[i]>> \o rest.chars,
          next |-> rest.next]

\* the number of digits at the head of the text from position i on
RECURSIVE DigitsFrom(_, _)
DigitsFrom(text, i) ==
  IF i <= Len(text) /\ IsDigit(text[i]) THEN 1 + DigitsFrom(text, i + 1) ELSE 0

\* a value is a number or a string
ValueFrom(text, i) ==
  IF i > Len(text) THEN [ok |-> FALSE, number |-> FALSE, chars |-> <<>>, next |-> i]
  ELSE IF text[i] = Quote
    THEN LET str == StringFrom(text, i + 1) IN
           [ok |-> str.ok, number |-> FALSE, chars |-> str.chars, next |-> str.next]
  ELSE LET n == DigitsFrom(text, i) IN
         [ok |-> n > 0, number |-> TRUE, chars |-> SubSeq(text, i, i + n - 1),
          next |-> i + n]

Keys == {"id", "name", "position", "year", "rating"}

\* the members of an object, read from just after "{" or ","
RECURSIVE MembersFrom(_, _, _)
MembersFrom(text, i, seen) ==
  IF i + 1 > Len(text) \/ text[i] \notin Keys \/ text[i + 1] # ":"
    THEN [ok |-> FALSE, members |-> seen, next |-> i]
  ELSE LET v == ValueFrom(text, i + 2)
           now_seen == [k \in DOMAIN seen \cup {text[i]} |->
                          IF k = text[i] THEN v ELSE seen[k]]
       IN IF ~v.ok \/ v.next > Len(text)
            THEN [ok |-> FALSE, members |-> seen, next |-> i]
          ELSE IF text[v.next] = "}"
            THEN [ok |-> TRUE, members |-> now_seen, next |-> v.next + 1]
          ELSE IF text[v.next] = ","
            THEN MembersFrom(text, v.next + 1, now_seen)
          ELSE [ok |-> FALSE, members |-> seen, next |-> i]

LabelOf(chars) == IF chars = <<>> THEN "" ELSE chars[1]

RecordOf(members) ==
  [id |-> DecimalValue(members["id"].chars),
   name |-> members["name"].chars,
   position |-> LabelOf(members["position"].chars),
   year |-> LabelOf(members["year"].chars),
   rating |-> members["rating"].chars]

\* the elements of an array, read from just after "[" or ","
RECURSIVE ElementsFrom(_, _)
ElementsFrom(text, i) ==
  IF i > Len(text) \/ text[i] # "{" THEN [ok |-> FALSE, list |-> <<>>]
  ELSE LET obj == MembersFrom(text, i + 1, [k \in {} |-> 0]) IN
         IF ~obj.ok \/ DOMAIN obj.members # Keys \/ obj.next > Len(text)
           THEN [ok |-> FALSE, list |-> <<>>]
         ELSE IF text[obj.next] = "]"
           THEN [ok |-> obj.next = Len(text), list |-> <<RecordOf(obj.members)>>]
         ELSE IF text[obj.next] = ","
           THEN LET rest == ElementsFrom(text, obj.next + 1) IN
                  [ok |-> rest.ok, list |-> <<RecordOf(obj.members)>> \o rest.list]
         ELSE [ok |-> FALSE, list |-> <<>>]

\* ok is FALSE where JSON.parse throws
JSONparse(text) ==
  IF Len(text) < 2 \/ text[1] # "[" THEN [ok |-> FALSE, list |-> <<>>]
  ELSE IF text = <<"[", "]">> THEN [ok |-> TRUE, list |-> <<>>]
  ELSE ElementsFrom(text, 2)

\* ------------------------------------------- useLocalStorage (outside src/)
\* the write of setPlayers: the whole list goes to the backing store
setItem == storage' = JSONstringify(store')

\* the write of setPlayers failing: the list in memory is replaced, the
\* backing store keeps its text and the caller gets the exception
setItemFails == storage' = storage

\* the initial read: the stored list, or the initial value [] when the key
\* is absent or its text does not parse
getItem ==
  IF storage = NoItem THEN <<>>
  ELSE IF JSONparse(storage).ok THEN JSONparse(storage).list ELSE <<>>

\* ----------------------------------------------------------- sortedPlayers
\* the characters of the model in the order of their UTF-16 code units
CodeOrder ==
  <<" ", "(", ")", "+", "-", "0", "1", "2", "3", "4", "5", "6", "7", "8", "9",
    "A", "B", "C", "D", "E", "F", "G", "H", "I", "J", "K", "L", "M", "N", "O",
    "P", "Q", "R", "S", "T", "U", "V", "W", "X", "Y", "Z", "a", "b", "o", "x">>

CharCode(c) == CHOOSE k \in 1..Len(CodeOrder) : CodeOrder[k] = c

\* the operator < on two strings: the first differing code unit decides, a
\* proper prefix is the smaller string
RECURSIVE StringLess(_, _)
StringLess(s, t) ==
  IF t = <<>> THEN FALSE
  ELSE IF s = <<>> THEN TRUE
  ELSE IF Head(s) = Head(t) THEN StringLess(Tail(s), Tail(t))
  ELSE CharCode(Head(s)) < CharCode(Head(t))

\* the characters of a position label
Letters ==
  ("" :> <<>>) @@ ("QB" :> <<"Q", "B">>) @@ ("RB" :> <<"R", "B">>)
    @@ ("WR" :> <<"W", "R">>) @@ ("TE" :> <<"T", "E">>)
    @@ ("OL" :> <<"O", "L">>) @@ ("DL" :> <<"D", "L">>)
    @@ ("LB" :> <<"L", "B">>) @@ ("CB" :> <<"C", "B">>)
    @@ ("S" :> <<"S">>) @@ ("K" :> <<"K">>) @@ ("P" :> <<"P">>)

\* a[sortConfig.field] for the fields the last branch compares
FieldText(a, field) == IF field = "name" THEN a.name ELSE Letters[a.position]

\* a number is an integer or NaN
NaN == [nan |-> TRUE, val |-> 0]

Num(v) == [nan |-> FALSE, val |-> v]

\* x - y: NaN when either operand is NaN
Minus(x, y) == IF x.nan \/ y.nan THEN NaN ELSE Num(x.val - y.val)

\* -x
Negate(x) == IF x.nan THEN NaN ELSE Num(0 - x.val)

\* yearOrder[label]: undefined, which subtracts as NaN, for a label the
\* table has no entry for
RankOf(label) ==
  IF label \in DOMAIN yearOrder THEN Num(yearOrder[label]) ELSE NaN

\* parseInt of a string: leading white space is skipped, a sign is read, then
\* the longest run of decimal digits; NaN when that run is empty.  (A 0x
\* prefix would switch to base 16; no rating of the model starts with one.)
parseInt(s) ==
  LET t == TrimLeft(s)
      signed == t # <<>> /\ Head(t) \in {"+", "-"}
      u == IF signed THEN Tail(t) ELSE t
      n == DigitsFrom(u, 1)
      v == DecimalValue(SubSeq(u, 1, n))
  IN  IF n = 0 THEN NaN
      ELSE IF signed /\ Head(t) = "-" THEN Num(0 - v) ELSE Num(v)

\* the comparator handed to sort
compareFn(a, b, config) ==
  IF config.field = "year"
  THEN LET yearDiff == Minus(RankOf(a.year), RankOf(b.year))
       IN  IF config.direction = "asc" THEN yearDiff ELSE Negate(yearDiff)
  ELSE IF config.field = "rating"
  THEN IF config.direction = "asc"
       THEN Minus(parseInt(a.rating), parseInt(b.rating))
       ELSE Minus(parseInt(b.rating), parseInt(a.rating))
  ELSE IF StringLess(FieldText(a, config.field), FieldText(b, config.field))
  THEN Num(IF config.direction = "asc" THEN 0 - 1 ELSE 1)
  ELSE IF StringLess(FieldText(b, config.field), FieldText(a, config.field))
  THEN Num(IF config.direction = "asc" THEN 1 ELSE 0 - 1)
  ELSE Num(0)

\* Array.prototype.sort reads a NaN result of the comparator as +0
SortCompare(a, b, config) ==
  LET v == compareFn(a, b, config) IN IF v.nan THEN 0 ELSE v.val

\* the comparator is consistent on the elements of list: equality is
\* reflexive, symmetric and transitive, and < and > are transitive
ConsistentOn(list, config) ==
  LET c(i, j) == SortCompare(list[i], list[j], config)
      S == 1..Len(list)
  IN  /\ \A i \in S : c(i, i) = 0
      /\ \A i, j \in S : c(i, j) = 0 => c(j, i) = 0
      /\ \A i, j, k \in S : c(i, j) = 0 /\ c(j, k) = 0 => c(i, k) = 0
      /\ \A i, j, k \in S : c(i, j) < 0 /\ c(j, k) < 0 => c(i, k) < 0
      /\ \A i, j, k \in S : c(i, j) > 0 /\ c(j, k) > 0 => c(i, k) > 0

\* the insertion dropping the record it was to insert whenever the comparator
\* has no answer for it and its neighbour
InsertOrDrop(sorted, x, config) ==
  IF sorted # <<>> /\ compareFn(x, sorted[Len(sorted)], config).nan
  THEN sorted
  ELSE Append(sorted, x)

\* x goes behind the last record it does not sort before
Insert(sorted, x, config) ==
  LET Behind == {i \in 1..Len(sorted) : SortCompare(x, sorted[i], config) >= 0}
      at == IF Behind = {} THEN 0 ELSE CHOOSE i \in Behind : \A j \in Behind : j <= i
  IN  SubSeq(sorted, 1, at) \o <<x>> \o SubSeq(sorted, at + 1, Len(sorted))

\* the stable sort: records the comparator gives 0 for keep their order
RECURSIVE StableSort(_, _)
StableSort(list, config) ==
  IF list = <<>> THEN <<>>
  ELSE Insert(StableSort(SubSeq(list, 1, Len(list) - 1), config),
              list[Len(list)], config)

\* every order of the records of list
Orders(list) ==
  LET S == 1..Len(list)
  IN  {[i \in S |-> list[p[i]]] : p \in {q \in [S -> S] : \A i, j \in S : q[i] = q[j] => i = j}}

\* [...list].sort(comparator): the stable sort under a consistent
\* comparator; under an inconsistent one the order is implementation-defined
sort(list, config) ==
  IF ConsistentOn(list, config) THEN {StableSort(list, config)}
  ELSE Orders(list)

\* the orders the table of the current render may show
sortedPlayers == sort(players, sortConfig)

\* ---------------------------------------------------------------- handlers
\* updatePlayer (lines 80-95) is bound to no element of the rendered tree and
\* never runs; it has no action here.

\* the re-render a state update causes: the handlers of the next event close
\* over the list the store then holds
Render == players' = store'

\* the effect on [players] with its dependencies compared by content
useEffectOnContent ==
  sortConfig' = IF store' # store THEN DefaultSort ELSE sortConfig

\* the effect on [players]: every array handed to setPlayers is a new
\* object, so the render that follows runs the effect
useEffect == sortConfig' = DefaultSort

\* a handler that returns normally and raises no notification
Quiet ==
  /\ toast' = NoToast
  /\ thrown' = FALSE

\* onChange of the name Input
onChangeName(value) ==
  /\ newPlayer' = [newPlayer EXCEPT !.name = value]
  /\ typed' = (typed \/ editingId # None)
  /\ lastOp' = <<"change", None>>
  /\ UNCHANGED <<store, editingId, errors, now, sortConfig, storage>>
  /\ Render
  /\ Quiet

\* onValueChange of the position Select
onValueChangePosition(value) ==
  /\ newPlayer' = [newPlayer EXCEPT !.position = value]
  /\ typed' = (typed \/ editingId # None)
  /\ lastOp' = <<"change", None>>
  /\ UNCHANGED <<store, editingId, errors, now, sortConfig, storage>>
  /\ Render
  /\ Quiet

\* onValueChange of the year Select
onValueChangeYear(value) ==
  /\ newPlayer' = [newPlayer EXCEPT !.year = value]
  /\ typed' = (typed \/ editingId # None)
  /\ lastOp' = <<"change", None>>
  /\ UNCHANGED <<store, editingId, errors, now, sortConfig, storage>>
  /\ Render
  /\ Quiet

\* onChange of the rating Input
onChangeRating(value) ==
  /\ newPlayer' = [newPlayer EXCEPT !.rating = value]
  /\ typed' = (typed \/ editingId # None)
  /\ lastOp' = <<"change", None>>
  /\ UNCHANGED <<store, editingId, errors, now, sortConfig, storage>>
  /\ Render
  /\ Quiet

\* the record addPlayer appends: the draft with id Date.now() and a
\* capitalized name
NewRecord(draft, id) ==
  [draft EXCEPT !.id = id, !.name = capitalizeName(draft.name)]

\* Date.now(): a reading no earlier than the previous one
DateNow == now..MaxClock

\* the Add Player button is rendered when editingId is falsy
addPlayer ==
  /\ editingId = None
  /\ LET newErrors == validatePlayer(newPlayer) IN
       /\ errors' = newErrors
       /\ IF NoErrors(newErrors)
            THEN /\ Len(players) < MaxPlayers
                 /\ \E t \in DateNow :
                      /\ now' = t
                      /\ store' = Append(players, NewRecord(newPlayer, t))
                 /\ setItem
                 /\ useEffect
                 /\ newPlayer' = EmptyDraft
                 /\ toast' = AddedToast
            ELSE /\ UNCHANGED <<store, newPlayer, now, sortConfig, storage>>
                 /\ toast' = CorrectToast
  /\ thrown' = FALSE
  /\ Render
  /\ lastOp' = <<"add", None>>
  /\ UNCHANGED <<editingId, typed>>

\* the Edit button of a rendered row
startEditing(player) ==
  /\ editingId' = player.id
  /\ newPlayer' = player
  /\ typed' = FALSE
  /\ lastOp' = <<"startEdit", None>>
  /\ UNCHANGED <<store, errors, now, sortConfig, storage>>
  /\ Render
  /\ Quiet

\* a save that appends the draft when no record has the id
SavedListUpserts(list, id, draft) ==
  IF \E i \in 1..Len(list) : list[i].id = id
  THEN [i \in 1..Len(list) |->
          IF list[i].id = id THEN NewRecord(draft, list[i].id) ELSE list[i]]
  ELSE Append(list, NewRecord(draft, id))

\* the list saveEdit hands to setPlayers
SavedList(list, id, draft) ==
  [i \in 1..Len(list) |->
     IF list[i].id = id THEN NewRecord(draft, list[i].id) ELSE list[i]]

\* the Save button is rendered when editingId is truthy
saveEdit ==
  /\ editingId # None
  /\ store' = SavedList(players, editingId, newPlayer)
  /\ editingId' = None
  /\ newPlayer' = EmptyDraft
  /\ setItem
  /\ useEffect
  /\ Render
  /\ Quiet
  /\ lastOp' = <<"saveEdit", editingId>>
  /\ UNCHANGED <<errors, now, typed>>

\* cancelEdit writing the draft back like saveEdit
cancelEditCommits ==
  /\ editingId # None
  /\ store' = SavedList(players, editingId, newPlayer)
  /\ editingId' = None
  /\ newPlayer' = EmptyDraft
  /\ setItem
  /\ useEffect
  /\ Render
  /\ Quiet
  /\ lastOp' = <<"cancelEdit", None>>
  /\ UNCHANGED <<errors, now, typed>>

\* the Cancel button is rendered when editingId is truthy
cancelEdit ==
  /\ editingId # None
  /\ editingId' = None
  /\ newPlayer' = EmptyDraft
  /\ lastOp' = <<"cancelEdit", None>>
  /\ UNCHANGED <<store, errors, now, typed, sortConfig, storage>>
  /\ Render
  /\ Quiet

\* the filter keeping every record up to the first one with the id
WithoutFromFirst(list, id) ==
  IF id \in Ids(list)
    THEN SubSeq(list, 1, (CHOOSE i \in 1..Len(list) :
                            /\ list[i].id = id
                            /\ \A j \in 1..(i - 1) : list[j].id # id) - 1)
    ELSE list

\* players.filter(player => player.id !== id)
Without(list, id) == SelectSeq(list, LAMBDA player : player.id # id)

\* removePlayer closing the edit session of the removed record
removePlayerEndsEdit(id) ==
  /\ store' = Without(players, id)
  /\ setItem
  /\ useEffect
  /\ Render
  /\ Quiet
  /\ editingId' = IF editingId = id THEN None ELSE editingId
  /\ newPlayer' = IF editingId = id THEN EmptyDraft ELSE newPlayer
  /\ lastOp' = <<"remove", id>>
  /\ UNCHANGED <<errors, now, typed>>

\* the Remove button of a rendered row calls removePlayer(player.id)
removePlayer(id) ==
  /\ store' = Without(players, id)
  /\ setItem
  /\ useEffect
  /\ Render
  /\ Quiet
  /\ lastOp' = <<"remove", id>>
  /\ UNCHANGED <<newPlayer, editingId, errors, now, typed>>

\* a header click that flips the direction whatever field was sorted before
requestSortFlips(field) ==
  /\ sortConfig' = [field |-> field,
                    direction |-> IF sortConfig.direction = "asc"
                                  THEN "desc" ELSE "asc"]
  /\ UNCHANGED <<store, newPlayer, editingId, errors, now, storage, typed>>
  /\ Render
  /\ Quiet
  /\ lastOp' = <<"requestSort", field>>

\* a header click that sorts the list itself instead of a copy
requestSortInPlace(field) ==
  /\ sortConfig' = [field |-> field,
                    direction |-> IF sortConfig.field = field
                                     /\ sortConfig.direction = "asc"
                                  THEN "desc" ELSE "asc"]
  /\ \E view \in sort(players, sortConfig') : store' = view
  /\ UNCHANGED <<newPlayer, editingId, errors, now, storage, typed>>
  /\ Render
  /\ Quiet
  /\ lastOp' = <<"requestSort", field>>

\* a click on a column header: the functional update reads the latest
\* sortConfig; the list is not set, so the effect on [players] does not run
requestSort(field) ==
  /\ sortConfig' = [field |-> field,
                    direction |-> IF sortConfig.field = field
                                     /\ sortConfig.direction = "asc"
                                  THEN "desc" ELSE "asc"]
  /\ UNCHANGED <<store, newPlayer, editingId, errors, now, storage, typed>>
  /\ Render
  /\ Quiet
  /\ lastOp' = <<"requestSort", field>>

Next ==
  \/ \E value \in NameInputs : onChangeName(value)
  \/ \E value \in PositionInputs : onValueChangePosition(value)
  \/ \E value \in YearInputs : onValueChangeYear(value)
  \/ \E value \in RatingInputs : onChangeRating(value)
  \/ addPlayer
  \/ \E i \in 1..Len(players) : startEditing(players[i])
  \/ saveEdit
  \/ cancelEdit
  \/ \E id \in Ids(players) : removePlayer(id)

Spec == Init /\ [][Next]_vars

\* ---------------------------------------------------------------- restart
\* the restart reading a key nothing was written under
ReloadOtherKey ==
  /\ store' = <<>>
  /\ Render
  /\ newPlayer' = EmptyDraft
  /\ editingId' = None
  /\ errors' = NoErrorMap
  /\ sortConfig' = DefaultSort
  /\ Quiet
  /\ lastOp' = <<"reload", None>>
  /\ typed' = FALSE
  /\ UNCHANGED <<storage, now>>

\* the page is loaded again: every useState starts from its initial value
\* and useLocalStorage('players', []) reads the backing store
Reload ==
  /\ store' = getItem
  /\ Render
  /\ newPlayer' = EmptyDraft
  /\ editingId' = None
  /\ errors' = NoErrorMap
  /\ sortConfig' = DefaultSort
  /\ Quiet
  /\ lastOp' = <<"reload", None>>
  /\ typed' = FALSE
  /\ UNCHANGED <<storage, now>>

NextReload ==
  \/ Next
  \/ Reload

SpecReload == Init /\ [][NextReload]_vars

\* -------------------------------------------------------- failing writes
\* addPlayer when the write of setPlayers throws: the catch of lines 71-74
\* raises the failure toast; the statements after setPlayers are skipped
addPlayerWriteFails ==
  /\ editingId = None
  /\ NoErrors(validatePlayer(newPlayer))
  /\ errors' = validatePlayer(newPlayer)
  /\ Len(players) < MaxPlayers
  /\ \E t \in DateNow :
       /\ now' = t
       /\ store' = Append(players, NewRecord(newPlayer, t))
  /\ setItemFails
  /\ useEffect
  /\ toast' = AddFailedToast
  /\ thrown' = FALSE
  /\ Render
  /\ lastOp' = <<"addWriteFails", None>>
  /\ UNCHANGED <<newPlayer, editingId, typed>>

\* saveEdit when the write throws: nothing catches, the handler ends at the
\* call of setPlayers and the edit session stays open
saveEditWriteFails ==
  /\ editingId # None
  /\ store' = SavedList(players, editingId, newPlayer)
  /\ setItemFails
  /\ useEffect
  /\ toast' = NoToast
  /\ thrown' = TRUE
  /\ Render
  /\ lastOp' = <<"saveEditWriteFails", editingId>>
  /\ UNCHANGED <<newPlayer, editingId, errors, now, typed>>

\* removePlayer when the write throws: nothing catches
removePlayerWriteFails(id) ==
  /\ store' = Without(players, id)
  /\ setItemFails
  /\ useEffect
  /\ toast' = NoToast
  /\ thrown' = TRUE
  /\ Render
  /\ lastOp' = <<"removeWriteFails", id>>
  /\ UNCHANGED <<newPlayer, editingId, errors, now, typed>>

NextFail ==
  \/ Next
  \/ addPlayerWriteFails
  \/ saveEditWriteFails
  \/ \E id \in Ids(players) : removePlayerWriteFails(id)

SpecFail == Init /\ [][NextFail]_vars

\* ------------------------------------------------------- direct calls
\* removePlayer as a function of its argument: a caller may hand it an id
\* no record has
NextCall ==
  \/ Next
  \/ \E id \in IdInputs \ Ids(players) : removePlayer(id)

SpecCall == Init /\ [][NextCall]_vars

\* ------------------------------------------------------- batched events
\* React applies the state updates of an event and re-renders after the
\* handler returns.  Events dispatched back to back, with no re-render in
\* between, run the handlers of one render: removePlayerBatched is such a
\* call, it writes the store and leaves the re-render pending, so the next
\* handler still closes over the list of the old render.
removePlayerBatched(id) ==
  /\ store' = Without(players, id)
  /\ setItem
  /\ Quiet
  /\ lastOp' = <<"remove", id>>
  /\ UNCHANGED <<players, newPlayer, editingId, errors, now, typed, sortConfig>>

\* the pending re-render
Flush ==
  /\ players # store
  /\ players' = store
  /\ useEffect
  /\ UNCHANGED <<store, newPlayer, editingId, errors, now, lastOp, typed,
                  storage, toast, thrown>>

NextBatch ==
  \/ Next
  \/ \E id \in Ids(players) : removePlayerBatched(id)
  \/ Flush

SpecBatch == Init /\ [][NextBatch]_vars

\* --------------------------------------------------------- column headers
\* the header clicks next to the handlers that write the list, removePlayer
\* on any id; the year of the draft stays as it is
NextSort ==
  \/ \E value \in NameInputs : onChangeName(value)
  \/ \E value \in PositionInputs : onValueChangePosition(value)
  \/ \E value \in RatingInputs : onChangeRating(value)
  \/ addPlayer
  \/ \E i \in 1..Len(players) : startEditing(players[i])
  \/ saveEdit
  \/ cancelEdit
  \/ \E id \in IdInputs : removePlayer(id)
  \/ \E field \in SortFields : requestSort(field)

SpecSort == Init /\ [][NextSort]_vars

\* ------------------------------------------------------- the sorted table
\* records a list can hold: add stores any year, the empty one included, and
\* saveEdit stores the draft as typed
ViewRecords ==
  { [id |-> 1, name |-> <<"B">>, position |-> "QB", year |-> "SO",
     rating |-> <<"4", "5">>],
    [id |-> 2, name |-> <<"B", " ", "O">>, position |-> "WR",
     year |-> "FR (RS)", rating |-> <<"9", "2">>],
    [id |-> 3, name |-> <<"b">>, position |-> "S", year |-> "JR",
     rating |-> <<"7">>],
    [id |-> 4, name |-> <<"O">>, position |-> "K", year |-> "",
     rating |-> <<"9", "9">>],
    [id |-> 5, name |-> <<"B">>, position |-> "QB", year |-> "SO",
     rating |-> <<>>] }

ViewLists == UNION {[1..n -> ViewRecords] : n \in 0..MaxRows}

\* the component mounted over a stored list
InitView ==
  \E list \in ViewLists :
    /\ storage = JSONstringify(list)
    /\ store = list
    /\ players = list
    /\ newPlayer = EmptyDraft
    /\ editingId = None
    /\ errors = NoErrorMap
    /\ now = MaxClock
    /\ sortConfig = DefaultSort
    /\ toast = NoToast
    /\ thrown = FALSE
    /\ lastOp = <<"reload", None>>
    /\ typed = FALSE

NextView == \E field \in SortFields : requestSort(field)

SpecView == InitView /\ [][NextView]_vars

\* ------------------------------------------------------------ properties
ValidRecord(r) ==
  /\ validateName(r.name)
  /\ validatePosition(r.position)
  /\ validateRating(r.rating)

FieldsFailing(r) ==
  {f \in {"name", "position", "rating"} :
     \/ f = "name" /\ ~validateName(r.name)
     \/ f = "position" /\ ~validatePosition(r.position)
     \/ f = "rating" /\ ~validateRating(r.rating)}

OpIs(name) == lastOp'[1] = name

\* C1: every record held in the store passes validateName, validatePosition
\* and validateRating, in every reachable state.
C1_StoreHoldsValidRecords ==
  \A i \in 1..Len(store) : ValidRecord(store[i])

\* C2: saveEdit with a draft that fails a validator leaves the store and
\* editingId unchanged and reports the mapping of the failing fields.
C2_InvalidSaveRejected ==
  [][(OpIs("saveEdit") /\ ~ValidRecord(newPlayer))
       => /\ store' = store
          /\ editingId' = editingId
          /\ DOMAIN errors' = FieldsFailing(newPlayer)]_vars

\* C3: add appends a record (the draft, name capitalized) iff the draft
\* passes the three validators; otherwise the store is unchanged and the
\* error mapping names exactly the fields whose validator failed.
C3_AddIffValid ==
  [][OpIs("add")
       => IF ValidRecord(newPlayer)
            THEN /\ Len(store') = Len(store) + 1
                 /\ SubSeq(store', 1, Len(store)) = store
                 /\ store'[Len(store')].name = capitalizeName(newPlayer.name)
                 /\ store'[Len(store')].position = newPlayer.position
                 /\ store'[Len(store')].year = newPlayer.year
                 /\ store'[Len(store')].rating = newPlayer.rating
                 /\ DOMAIN errors' = {}
            ELSE /\ store' = store
                 /\ DOMAIN errors' = FieldsFailing(newPlayer)]_vars

\* an add was refused with the rating as the only failing field
C3_Witness ==
  /\ lastOp[1] = "add"
  /\ DOMAIN errors = {"rating"}
  /\ newPlayer.rating = <<"1", "0", "0">>
  /\ store # <<>>

\* C4: no two records of the store have the same id.
C4_UniqueIds ==
  \A i, j \in 1..Len(store) : i # j => store[i].id # store[j].id

\* C5: the year of every stored record is a label of the rank table.
C5_YearHasRank ==
  \A i \in 1..Len(store) : store[i].year \in DOMAIN yearOrder

C7_CancelKeepsStore ==
  [][/\ (OpIs("startEdit") \/ OpIs("change") \/ OpIs("cancelEdit"))
          => store' = store
     /\ OpIs("cancelEdit")
          => /\ editingId' = None
             /\ newPlayer' = EmptyDraft
             /\ errors' = errors]_vars

\* an edit session with typed changes was cancelled
C7_Witness ==
  /\ lastOp[1] = "cancelEdit"
  /\ typed
  /\ store # <<>>
  /\ editingId = None
  /\ newPlayer = EmptyDraft

\* C8: saveEdit with a valid draft replaces the one record under edit by
\* the draft (same id, capitalized name), changes no other record, and
\* clears editingId and the draft.
C8_SaveReplacesOneRecord ==
  [][(OpIs("saveEdit") /\ ValidRecord(newPlayer) /\ editingId \in Ids(store))
       => /\ \E i \in 1..Len(store) :
               /\ store[i].id = editingId
               /\ store' = [store EXCEPT ![i] =
                    [id |-> editingId,
                     name |-> capitalizeName(newPlayer.name),
                     position |-> newPlayer.position,
                     year |-> newPlayer.year,
                     rating |-> newPlayer.rating]]
          /\ editingId' = None
          /\ newPlayer' = EmptyDraft]_vars

OtherThan(list, id) == SelectSeq(list, LAMBDA r : r.id # id)

\* C9: remove(id) deletes exactly the records with that id, keeps the
\* others in their order, changes nothing when no record has the id and
\* reports no error.
C9_RemoveExactlyId ==
  [][OpIs("remove")
       => /\ lastOp'[2] \notin Ids(store')
          /\ OtherThan(store', lastOp'[2]) = OtherThan(store, lastOp'[2])
          /\ (lastOp'[2] \notin Ids(store) => store' = store)
          /\ errors' = errors]_vars

\* removePlayer ran with an id later than every reading of the clock, hence
\* an id no record has, with a record in the store
C9_Witness ==
  /\ lastOp[1] = "remove"
  /\ lastOp[2] > MaxClock
  /\ store # <<>>

\* C10: remove changes neither editingId nor the draft, and is enabled
\* whether or not an edit session is open.
C10_RemoveKeepsEditSession ==
  [][OpIs("remove")
       => /\ editingId' = editingId
          /\ newPlayer' = newPlayer]_vars
    /\ [](\A id \in Ids(players) : ENABLED removePlayer(id))

\* the record under edit was removed: the edit session dangles
C10_Witness ==
  /\ lastOp[1] = "remove"
  /\ editingId # None
  /\ lastOp[2] = editingId
  /\ editingId \notin Ids(store)
  /\ newPlayer.id = editingId

\* C17: when every write succeeded, a restart leaves the list in memory
\* equal to the list written last, record for record and field for field.
C17_RestartRestoresList ==
  [][OpIs("reload") => (store' = store /\ players' = store)]_vars

\* a restart read back two records, one of them with an empty year
C17_Witness ==
  /\ lastOp[1] = "reload"
  /\ Len(store) = 2
  /\ \E i \in 1..2 : store[i].year = ""
  /\ \E i \in 1..2 : store[i].year # ""
  /\ storage # NoItem

\* the steps that hand a list to setPlayers
WritesStore ==
  \/ OpIs("add") /\ toast' = AddedToast
  \/ OpIs("saveEdit")
  \/ OpIs("remove")

\* C11: every step that writes the list (a valid add, saveEdit, a remove,
\* also one that deletes nothing) leaves the sort configuration at rating,
\* descending, whatever it was before; a header click never resets it: its
\* result is the default only when the click itself toggles rating from
\* ascending to descending.
C11_WriteResetsSort ==
  [][ /\ WritesStore => sortConfig' = DefaultSort
      /\ OpIs("requestSort") /\ sortConfig' = DefaultSort
           => sortConfig = [field |-> "rating", direction |-> "asc"] ]_vars

\* a remove that deleted nothing (the list is still full) left the default
\* sort configuration
C11_Witness ==
  /\ lastOp[1] = "remove"
  /\ Len(store) = MaxPlayers
  /\ lastOp[2] \notin Ids(store)
  /\ sortConfig = DefaultSort

\* C12: requestSort(f) sets the sort field to f; the direction becomes
\* descending when the field was f with direction ascending before, and
\* ascending in every other case.
C12_RequestSortToggles ==
  [][ OpIs("requestSort") =>
        /\ sortConfig'.field = lastOp'[2]
        /\ sortConfig'.direction =
             IF sortConfig.field = lastOp'[2] /\ sortConfig.direction = "asc"
             THEN "desc" ELSE "asc" ]_vars

\* a second click on the name header in a row: name, descending
C12_Witness ==
  /\ lastOp = <<"requestSort", "name">>
  /\ sortConfig = [field |-> "name", direction |-> "desc"]

\* C15: a header click, and the sorted table computed for it, leave the list
\* as it is: same records, same order, in memory and in the backing store.
C15_SortKeepsStore ==
  [][ OpIs("requestSort") =>
        /\ store' = store
        /\ players' = players
        /\ storage' = storage ]_vars

\* after a header click the table shows two records in another order than
\* the list holds them
C15_Witness ==
  /\ lastOp[1] = "requestSort"
  /\ Len(store) = 2
  /\ \E view \in sortedPlayers : view # store

\* C19: saveEdit on an edit session whose record is gone from the list
\* re-inserts nothing: the list stays as it is, editingId becomes none and
\* the draft empty.
C19_SaveAfterRemove ==
  [][ OpIs("saveEdit") /\ editingId \notin Ids(store) =>
        /\ store' = store
        /\ editingId' = None
        /\ newPlayer' = EmptyDraft ]_vars

\* a save ran on the id of a removed record while another record was stored
C19_Witness ==
  /\ lastOp[1] = "saveEdit"
  /\ lastOp[2] \notin Ids(store)
  /\ store # <<>>
  /\ editingId = None
  /\ newPlayer = EmptyDraft

\* x <= y on two numbers: false when either is NaN
NumLeq(x, y) == ~x.nan /\ ~y.nan /\ x.val <= y.val

\* C13: with sort field year, the rank of each record of the sorted table is
\* less than or equal to the rank of the next one in ascending direction,
\* greater than or equal in descending direction, whatever the order of the
\* list.
C13_YearSortFollowsRank ==
  sortConfig.field = "year" =>
    \A view \in sortedPlayers : \A i \in 1..(Len(view) - 1) :
      IF sortConfig.direction = "asc"
      THEN NumLeq(RankOf(view[i].year), RankOf(view[i + 1].year))
      ELSE NumLeq(RankOf(view[i + 1].year), RankOf(view[i].year))

\* C14: with sort field rating, the integer values of the ratings of the
\* sorted table never increase in descending direction and never decrease in
\* ascending direction, whatever the order of the list.
C14_RatingSortByValue ==
  sortConfig.field = "rating" =>
    \A view \in sortedPlayers : \A i \in 1..(Len(view) - 1) :
      IF sortConfig.direction = "asc"
      THEN NumLeq(parseInt(view[i].rating), parseInt(view[i + 1].rating))
      ELSE NumLeq(parseInt(view[i + 1].rating), parseInt(view[i].rating))

\* the value the comparator reads from a record
SortKey(a, field) ==
  IF field = "year" THEN RankOf(a.year)
  ELSE IF field = "rating" THEN parseInt(a.rating)
  ELSE FieldText(a, field)

\* C18: sorting a sorted table again by the same field and direction gives
\* the same order, up to the order of records with equal keys: the keys come
\* in the same sequence.
C18_SortIdempotent ==
  \A view \in sortedPlayers : \A again \in sort(view, sortConfig) :
    \A i \in 1..Len(view) :
      SortKey(again[i], sortConfig.field) = SortKey(view[i], sortConfig.field)

\* how many times a record occurs in a list
Count(list, r) == Cardinality({i \in 1..Len(list) : list[i] = r})

WriteFailed ==
  lastOp[1] \in {"addWriteFails", "saveEditWriteFails", "removeWriteFails"}

\* C16: when the write to the backing store fails in add, saveEdit or
\* remove, the failure is caught and shown as a failure notification, no
\* exception leaves the handler, and the list in memory is one the handlers
\* go on working with: the list the handler built.
C16_WriteFailureReported ==
  WriteFailed =>
    /\ thrown = FALSE
    /\ toast = AddFailedToast
    /\ players = store
====
